---- MODULE Spec2Model ----
(***************************************************************************)
(* A model of SpinlabSC.py: the Database facade over the slow-control      *)
(* tables, the model classes (Group and its subclasses, Units, Record) and *)
(* RecordSet.                                                              *)
(*                                                                         *)
(* Text is a sequence of one-character strings.  A Python call either      *)
(* returns a value or raises: Ret(v) / Raise(exc, msg).  Python objects    *)
(* are records with a "type" field; None is the record of type NoneType.   *)
(***************************************************************************)
EXTENDS Integers, Sequences, FiniteSets, TLC

VARIABLES db, now, last, calls, csv

vars == <<db, now, last, calls, csv>>

-----------------------------------------------------------------------------
(* Python values                                                           *)

None == [type |-> "NoneType"]

\* a str object that is not one of the model classes
Str(s) == [type |-> "str", val |-> s]

\* Python truth value: None and the empty str are false, every instance of a
\* model class is true (the classes define neither __bool__ nor __len__)
Truthy(v) == /\ v.type # "NoneType"
             /\ ~(v.type = "str" /\ v.val = <<>>)

Ret(v) == [k |-> "ret", v |-> v]

Raise(exc, msg) == [k |-> "raise", exc |-> exc, msg |-> msg]

\* ID=None default of the constructors and of the Get methods; every test of
\* an id in the source is a truth test, which None and 0 both fail
NoID == 0

-----------------------------------------------------------------------------
(* Text                                                                    *)

Rep(n) == [i \in 1..n |-> "a"]

MaxNameLen == 12
MaxShortLen == 25
MaxTextLen == 255

Dot == "."
Quote == "'"

\* Enquote(string): '\'' + string + '\''
Enquote(string) == <<Quote>> \o string \o <<Quote>>

RECURSIVE Join(_)
\* Sep(*args): '.'.join(args)
Join(args) == IF Len(args) = 0 THEN <<>>
              ELSE IF Len(args) = 1 THEN args[1]
              ELSE args[1] \o <<Dot>> \o Join(Tail(args))

Sep(args) == Join(args)

RECURSIVE SplitFrom(_, _, _)
SplitFrom(s, i, cur) ==
  IF i > Len(s) THEN <<cur>>
  ELSE IF s[i] = Dot THEN <<cur>> \o SplitFrom(s, i + 1, <<>>)
  ELSE SplitFrom(s, i + 1, Append(cur, s[i]))

\* name.split('.')
Split(name) == SplitFrom(name, 1, <<>>)

-----------------------------------------------------------------------------
(* Model classes                                                           *)

\* Group.__init__ with the bound on the name tested with >= (a name of
\* exactly 12 characters is refused)
GroupInitOffByOne(name, desc) ==
  IF name = <<>> \/ desc = <<>>
  THEN Raise("ModelException", "All groups must have a valid name and desc")
  ELSE IF Len(name) >= MaxNameLen
  THEN Raise("ModelException", "Name of group exceeds 12 char max")
  ELSE IF Len(desc) > MaxTextLen
  THEN Raise("ModelException", "Description of group exceeds 255 char max")
  ELSE Ret(None)

\* Group.__init__: the checks on the text fields; the object is built by the
\* subclass operator
GroupInit(name, desc) ==
  IF name = <<>> \/ desc = <<>>
  THEN Raise("ModelException", "All groups must have a valid name and desc")
  ELSE IF Len(name) > MaxNameLen
  THEN Raise("ModelException", "Name of group exceeds 12 char max")
  ELSE IF Len(desc) > MaxTextLen
  THEN Raise("ModelException", "Description of group exceeds 255 char max")
  ELSE Ret(None)

Owner(name, desc, ID) ==
  LET g == GroupInit(name, desc) IN
  IF g.k = "raise" THEN g
  ELSE Ret([type |-> "Owner", name |-> name, desc |-> desc, ID |-> ID, parent |-> None])

Project(name, desc, owner, ID) ==
  IF ~Truthy(owner)
  THEN Raise("ModelException", "Projects require a valid owner")
  ELSE IF owner.type # "Owner"
  THEN Raise("ModelException", "Projects must belong to an owner")
  ELSE LET g == GroupInit(name, desc) IN
       IF g.k = "raise" THEN g
       ELSE Ret([type |-> "Project", name |-> name, desc |-> desc, ID |-> ID,
                 parent |-> owner])

System(name, desc, project, ID) ==
  IF ~Truthy(project)
  THEN Raise("ModelException", "Systems require a valid project")
  ELSE IF project.type # "Project"
  THEN Raise("ModelException", "Systems must belong to a project")
  ELSE LET g == GroupInit(name, desc) IN
       IF g.k = "raise" THEN g
       ELSE Ret([type |-> "System", name |-> name, desc |-> desc, ID |-> ID,
                 parent |-> project])

Manufacturer(name, desc, URL, ID) ==
  IF URL = <<>>
  THEN Raise("ModelException", "Manufacturer require a valid URL")
  ELSE IF Len(URL) > MaxTextLen
  THEN Raise("ModelException", "URL exceeds 255 char max")
  ELSE LET g == GroupInit(name, desc) IN
       IF g.k = "raise" THEN g
       ELSE Ret([type |-> "Manufacturer", name |-> name, desc |-> desc, ID |-> ID,
                 parent |-> None, URL |-> URL])

Device(name, desc, system, URL, mfg, ID) ==
  IF ~Truthy(system)
  THEN Raise("ModelException", "Devices require a valid system")
  ELSE IF system.type # "System"
  THEN Raise("ModelException", "Devices must belong to a system")
  ELSE IF URL = <<>>
  THEN Raise("ModelException", "Devices require a valid docs URL")
  ELSE IF Len(URL) > MaxTextLen
  THEN Raise("ModelException", "URL exceeds 255 char max")
  ELSE IF ~Truthy(mfg)
  THEN Raise("ModelException", "Devices require a vailid manufacturer")
  ELSE LET g == GroupInit(name, desc) IN
       IF g.k = "raise" THEN g
       ELSE Ret([type |-> "Device", name |-> name, desc |-> desc, ID |-> ID,
                 parent |-> system, mfg |-> mfg, URL |-> URL])

Units(short, long, desc, ID) ==
  IF short = <<>> \/ long = <<>> \/ desc = <<>>
  THEN Raise("ModelException", "Description and short/long forms of units must be provided")
  ELSE IF Len(short) > MaxShortLen
  THEN Raise("ModelException", "Short name of units exceeds 25 char max")
  ELSE IF Len(long) > MaxTextLen
  THEN Raise("ModelException", "Long name of units exceeds 255 char max")
  ELSE IF Len(desc) > MaxTextLen
  THEN Raise("ModelException", "Description of units exceeds 255 char max")
  ELSE Ret([type |-> "Units", short |-> short, long |-> long, desc |-> desc, ID |-> ID])

Sensor(name, desc, device, units, ID) ==
  IF ~Truthy(device)
  THEN Raise("ModelException", "Sensors require a valid device")
  ELSE IF device.type # "Device"
  THEN Raise("ModelException", "sensors must belong to a device")
  ELSE IF ~Truthy(units)
  THEN Raise("ModelException", "Sensors require valid units")
  ELSE LET g == GroupInit(name, desc) IN
       IF g.k = "raise" THEN g
       ELSE Ret([type |-> "Sensor", name |-> name, desc |-> desc, ID |-> ID,
                 parent |-> device, units |-> units])

Record(data, error, sensor, ID, DTG) ==
  IF ~Truthy(sensor)
  THEN Raise("ModelException", "Records must belong to a valid sensor")
  ELSE Ret([type |-> "Record", data |-> data, error |-> error, sensor |-> sensor,
            ID |-> ID, DTG |-> DTG])

RECURSIVE Nomenclature(_)
\* Group.Nomenclature
Nomenclature(self) ==
  IF Truthy(self.parent)
  THEN Nomenclature(self.parent) \o <<Dot>> \o self.name
  ELSE self.name

-----------------------------------------------------------------------------
(* The store behind self.conn: one sequence of rows per table, a row's id  *)
(* its position (AUTO_INCREMENT from 1, no row is ever deleted).  The      *)
(* store holds what the statements of the library put there and matches    *)
(* text exactly; the creation timestamps of the group tables (ownerDTG,    *)
(* projDTG, ...) are written by the server and only copied into the        *)
(* returned object, so those columns are left out; recDTG is kept.         *)

Tables == {"Owners", "Projects", "Systems", "Manufacturers", "Devices", "Units",
           "Sensors", "Records"}

IDColumn == [Owners |-> "ownerID", Projects |-> "projID", Systems |-> "sysID",
             Manufacturers |-> "mfgID", Devices |-> "devID", Units |-> "unitID",
             Sensors |-> "senID", Records |-> "recID"]

TextColumns == {"ownerName", "ownerDesc", "projName", "projDesc", "sysName", "sysDesc",
                "mfgName", "mfgDesc", "mfgURL", "devName", "devDesc", "devURL",
                "unitShort", "unitLong", "unitDesc", "senName", "senDesc"}

\* self.recTable with devmode=False
recTable == "Records"

\* the value a literal of the statement denotes: a quoted string for a text
\* column, a number otherwise
Unquote(q) == SubSeq(q, 2, Len(q) - 1)

Literal(col, val) == IF col \in TextColumns THEN Unquote(val) ELSE val

\* EQ(val)
EQ(val) == [comp |-> "=", val |-> val]

\* EnDate(date): TIMESTAMP('<date>')
EnDate(date) == [fn |-> "TIMESTAMP", arg |-> date]

\* InRange(low, high): low AND high under BETWEEN
InRange(low, high) == [comp |-> "BETWEEN", val |-> <<low, "AND", high>>]

\* one condition of a WHERE clause on the value of its column
Holds(value, col, cond) ==
  IF cond.comp = "=" THEN value = Literal(col, cond.val)
  ELSE cond.val[1].arg <= value /\ value <= cond.val[3].arg

Matching(d, table, conds) ==
  SelectSeq(d[table], LAMBDA r : \A c \in DOMAIN conds : Holds(r[c], c, conds[c]))

Project_(rows, columns) ==
  [i \in 1..Len(rows) |-> [j \in 1..Len(columns) |-> rows[i][columns[j]]]]

\* Database.Select without ORDER BY: the rows in table order
Select(d, table, columns, conds) == Project_(Matching(d, table, conds), columns)

\* Database.Insert that returns the highest id of the table before its own
\* INSERT
InsertStaleID(d, table, pairs, t) ==
  LET ID  == Len(d[table]) + 1
      row == [c \in DOMAIN pairs |-> Literal(c, pairs[c])] @@ (IDColumn[table] :> ID)
      full == IF table = recTable THEN row @@ ("recDTG" :> t) ELSE row
  IN [db |-> [d EXCEPT ![table] = Append(@, full)], lastID |-> ID - 1]

\* Database.Insert: the row gets the next id; a record also gets the server
\* time t.  Returns the new store and cursor.getlastrowid()
Insert(d, table, pairs, t) ==
  LET ID  == Len(d[table]) + 1
      row == [c \in DOMAIN pairs |-> Literal(c, pairs[c])] @@ (IDColumn[table] :> ID)
      full == IF table = recTable THEN row @@ ("recDTG" :> t) ELSE row
  IN [db |-> [d EXCEPT ![table] = Append(@, full)], lastID |-> ID]

-----------------------------------------------------------------------------
(* Database.Get<Entity>(name, ID): a row of the result is indexed from 1   *)
(* here and from 0 in the source.                                          *)

\* tuple unpacking of name.split('.') into k names
Unpack(name, k) ==
  IF Len(Split(name)) = k THEN Ret(Split(name))
  ELSE Raise("ValueError", "wrong number of values to unpack")

GetOwner(name, ID) ==
  LET cols == <<"ownerName", "ownerDesc", "ownerID">>
      Found(rows) ==
        IF rows = <<>> THEN Ret(None)
        ELSE Owner(rows[1][1], rows[1][2], rows[1][3])
  IN Found(IF ID # NoID
           THEN Select(db, "Owners", cols, [ownerID |-> EQ(ID)])
           ELSE Select(db, "Owners", cols, [ownerName |-> EQ(Enquote(name))]))

GetProject(name, ID) ==
  LET cols == <<"projName", "projDesc", "projID", "ownerID">>
      Build(row, owner) ==
        IF owner.k = "raise" THEN owner
        ELSE Project(row[1], row[2], owner.v, row[3])
      Found(rows) ==
        IF rows.k = "raise" THEN rows
        ELSE IF rows.v = <<>> THEN Ret(None)
        ELSE Build(rows.v[1], GetOwner(<<>>, rows.v[1][4]))
      Under(parts, owner) ==
        IF owner.k = "raise" THEN owner
        ELSE IF ~Truthy(owner.v)
        THEN Raise("DatabaseException", "Invalid owner name")
        ELSE Ret(Select(db, "Projects", cols,
                        [projName |-> EQ(Enquote(parts[2])),
                         ownerID |-> EQ(owner.v.ID)]))
      Named(parts) ==
        IF parts.k = "raise" THEN parts
        ELSE Under(parts.v, GetOwner(parts.v[1], NoID))
  IN Found(IF ID # NoID
           THEN Ret(Select(db, "Projects", cols, [projID |-> EQ(ID)]))
           ELSE Named(Unpack(name, 2)))

GetSystem(name, ID) ==
  LET cols == <<"sysName", "sysDesc", "sysID", "projID">>
      Build(row, project) ==
        IF project.k = "raise" THEN project
        ELSE System(row[1], row[2], project.v, row[3])
      Found(rows) ==
        IF rows.k = "raise" THEN rows
        ELSE IF rows.v = <<>> THEN Ret(None)
        ELSE Build(rows.v[1], GetProject(<<>>, rows.v[1][4]))
      Under(parts, project) ==
        IF project.k = "raise" THEN project
        ELSE IF ~Truthy(project.v)
        THEN Raise("DatabaseException", "Invalid project name")
        ELSE Ret(Select(db, "Systems", cols,
                        [sysName |-> EQ(Enquote(parts[3])),
                         projID |-> EQ(project.v.ID)]))
      Named(parts) ==
        IF parts.k = "raise" THEN parts
        ELSE Under(parts.v, GetProject(Sep(<<parts.v[1], parts.v[2]>>), NoID))
  IN Found(IF ID # NoID
           THEN Ret(Select(db, "Systems", cols, [sysID |-> EQ(ID)]))
           ELSE Named(Unpack(name, 3)))

GetManufacturer(name, ID) ==
  LET cols == <<"mfgName", "mfgDesc", "mfgURL", "mfgID">>
      Found(rows) ==
        IF rows = <<>> THEN Ret(None)
        ELSE Manufacturer(rows[1][1], rows[1][2], rows[1][3], rows[1][4])
  IN Found(IF ID # NoID
           THEN Select(db, "Manufacturers", cols, [mfgID |-> EQ(ID)])
           ELSE Select(db, "Manufacturers", cols, [mfgName |-> EQ(Enquote(name))]))

GetDevice(name, ID) ==
  LET cols == <<"devName", "devDesc", "sysID", "devURL", "mfgID", "devID">>
      Build(row, system, mfg) ==
        IF system.k = "raise" THEN system
        ELSE IF mfg.k = "raise" THEN mfg
        ELSE Device(row[1], row[2], system.v, row[4], mfg.v, row[6])
      Found(rows) ==
        IF rows.k = "raise" THEN rows
        ELSE IF rows.v = <<>> THEN Ret(None)
        ELSE Build(rows.v[1], GetSystem(<<>>, rows.v[1][3]),
                   GetManufacturer(<<>>, rows.v[1][5]))
      Under(parts, system) ==
        IF system.k = "raise" THEN system
        ELSE IF ~Truthy(system.v)
        THEN Raise("DatabaseException", "System does not exist")
        ELSE Ret(Select(db, "Devices", cols,
                        [devName |-> EQ(Enquote(parts[4])),
                         sysID |-> EQ(system.v.ID)]))
      Named(parts) ==
        IF parts.k = "raise" THEN parts
        ELSE Under(parts.v, GetSystem(Sep(<<parts.v[1], parts.v[2], parts.v[3]>>), NoID))
  IN Found(IF ID # NoID
           THEN Ret(Select(db, "Devices", cols, [devID |-> EQ(ID)]))
           ELSE Named(Unpack(name, 4)))

GetUnits(long, ID) ==
  LET cols == <<"unitShort", "unitLong", "unitDesc", "unitID">>
      Found(rows) ==
        IF rows = <<>> THEN Ret(None)
        ELSE Units(rows[1][1], rows[1][2], rows[1][3], rows[1][4])
  IN Found(IF ID # NoID
           THEN Select(db, "Units", cols, [unitID |-> EQ(ID)])
           ELSE Select(db, "Units", cols, [unitLong |-> EQ(Enquote(long))]))

GetSensor(name, ID) ==
  LET cols == <<"senName", "senDesc", "devID", "unitID", "senID">>
      Build(row, device, units) ==
        IF device.k = "raise" THEN device
        ELSE IF units.k = "raise" THEN units
        ELSE Sensor(row[1], row[2], device.v, units.v, row[5])
      Found(rows) ==
        IF rows.k = "raise" THEN rows
        ELSE IF rows.v = <<>> THEN Ret(None)
        ELSE Build(rows.v[1], GetDevice(<<>>, rows.v[1][3]),
                   GetUnits(<<>>, rows.v[1][4]))
      Under(parts, device) ==
        IF device.k = "raise" THEN device
        ELSE IF ~Truthy(device.v)
        THEN Raise("DatabaseException", "Device not found")
        ELSE Ret(Select(db, "Sensors", cols,
                        [senName |-> EQ(Enquote(parts[5])),
                         devID |-> EQ(device.v.ID)]))
      Named(parts) ==
        IF parts.k = "raise" THEN parts
        ELSE Under(parts.v, GetDevice(Sep(<<parts.v[1], parts.v[2], parts.v[3], parts.v[4]>>), NoID))
  IN Found(IF ID # NoID
           THEN Ret(Select(db, "Sensors", cols, [senID |-> EQ(ID)]))
           ELSE Named(Unpack(name, 5)))

-----------------------------------------------------------------------------
(* Database.CreateNew<Entity>: the result of the call and the store it     *)
(* leaves, [res, db].  The statements run in the order of the source: the  *)
(* duplicate test, the parent lookup, the INSERT, and only then the        *)
(* constructor of the returned object.                                     *)

Classes == {"Owner", "Project", "System", "Manufacturer", "Device", "Units", "Sensor"}

\* evaluating obj.ID
HasID(obj) == obj.type \in Classes

NoAttr == Raise("AttributeError", "object has no attribute 'ID'")

Done(res, d) == [res |-> res, db |-> d]

CreateNewOwner(name, desc) ==
  LET Made(ins) == Done(Owner(name, desc, ins.lastID), ins.db)
      New(dup) ==
        IF dup.k = "raise" THEN Done(dup, db)
        ELSE IF Truthy(dup.v)
        THEN Done(Raise("DatabaseException", "This owner already exists in the databse"), db)
        ELSE Made(Insert(db, "Owners", [ownerName |-> Enquote(name),
                                        ownerDesc |-> Enquote(desc)], now))
  IN New(GetOwner(name, NoID))

\* CreateNewProject without the test for an existing project of that name
CreateNewProjectNoDuplicateTest(name, desc) ==
  LET Made(parts, owner, ins) == Done(Project(parts[2], desc, owner, ins.lastID), ins.db)
      Add(parts, owner) ==
        IF owner.k = "raise" THEN Done(owner, db)
        ELSE IF ~HasID(owner.v) THEN Done(NoAttr, db)
        ELSE Made(parts, owner.v,
                  Insert(db, "Projects", [projName |-> Enquote(parts[2]),
                                          projDesc |-> Enquote(desc),
                                          ownerID |-> owner.v.ID], now))
      Named(parts) ==
        IF parts.k = "raise" THEN Done(parts, db)
        ELSE Add(parts.v, GetOwner(parts.v[1], NoID))
  IN Named(Unpack(name, 2))

CreateNewProject(name, desc) ==
  LET Made(parts, owner, ins) == Done(Project(parts[2], desc, owner, ins.lastID), ins.db)
      Add(parts, owner) ==
        IF owner.k = "raise" THEN Done(owner, db)
        ELSE IF ~HasID(owner.v) THEN Done(NoAttr, db)
        ELSE Made(parts, owner.v,
                  Insert(db, "Projects", [projName |-> Enquote(parts[2]),
                                          projDesc |-> Enquote(desc),
                                          ownerID |-> owner.v.ID], now))
      New(parts, dup) ==
        IF dup.k = "raise" THEN Done(dup, db)
        ELSE IF Truthy(dup.v)
        THEN Done(Raise("DatabaseException", "Project already exists"), db)
        ELSE Add(parts, GetOwner(parts[1], NoID))
      Named(parts) ==
        IF parts.k = "raise" THEN Done(parts, db)
        ELSE New(parts.v, GetProject(name, NoID))
  IN Named(Unpack(name, 2))

CreateNewSystem(name, desc) ==
  LET Made(parts, project, ins) == Done(System(parts[3], desc, project, ins.lastID), ins.db)
      Add(parts, project) ==
        IF project.k = "raise" THEN Done(project, db)
        ELSE IF ~HasID(project.v) THEN Done(NoAttr, db)
        ELSE Made(parts, project.v,
                  Insert(db, "Systems", [sysName |-> Enquote(parts[3]),
                                         sysDesc |-> Enquote(desc),
                                         projID |-> project.v.ID], now))
      New(parts, dup) ==
        IF dup.k = "raise" THEN Done(dup, db)
        ELSE IF Truthy(dup.v)
        THEN Done(Raise("DatabaseException", "System already exists"), db)
        ELSE Add(parts, GetProject(Sep(<<parts[1], parts[2]>>), NoID))
      Named(parts) ==
        IF parts.k = "raise" THEN Done(parts, db)
        ELSE New(parts.v, GetSystem(name, NoID))
  IN Named(Unpack(name, 3))

CreateNewManufacturer(name, desc, URL) ==
  LET Made(ins) == Done(Manufacturer(name, desc, URL, ins.lastID), ins.db)
      New(dup) ==
        IF dup.k = "raise" THEN Done(dup, db)
        ELSE IF Truthy(dup.v)
        THEN Done(Raise("DatabaseException", "Manufacturer already exists"), db)
        ELSE Made(Insert(db, "Manufacturers", [mfgName |-> Enquote(name),
                                               mfgDesc |-> Enquote(desc),
                                               mfgURL |-> Enquote(URL)], now))
  IN New(GetManufacturer(name, NoID))

CreateNewDevice(name, desc, URL, mfg) ==
  LET Made(parts, system, ins) ==
        Done(Device(parts[4], desc, system, URL, mfg, ins.lastID), ins.db)
      Add(parts, system) ==
        IF system.k = "raise" THEN Done(system, db)
        ELSE IF ~HasID(mfg) \/ ~HasID(system.v) THEN Done(NoAttr, db)
        ELSE Made(parts, system.v,
                  Insert(db, "Devices", [devName |-> Enquote(parts[4]),
                                         devDesc |-> Enquote(desc),
                                         devURL |-> Enquote(URL),
                                         mfgID |-> mfg.ID,
                                         sysID |-> system.v.ID], now))
      New(parts, dup) ==
        IF dup.k = "raise" THEN Done(dup, db)
        ELSE IF Truthy(dup.v)
        THEN Done(Raise("DatabaseException", "Device already exists"), db)
        ELSE Add(parts, GetSystem(Sep(<<parts[1], parts[2], parts[3]>>), NoID))
      Named(parts) ==
        IF parts.k = "raise" THEN Done(parts, db)
        ELSE IF ~Truthy(mfg)
        THEN Done(Raise("DatabaseException", "Manufacturer required"), db)
        ELSE New(parts.v, GetDevice(name, NoID))
  IN Named(Unpack(name, 4))

CreateNewUnits(short, long, desc) ==
  LET Made(ins) == Done(Units(short, long, desc, ins.lastID), ins.db)
      New(dup) ==
        IF dup.k = "raise" THEN Done(dup, db)
        ELSE IF Truthy(dup.v)
        THEN Done(Raise("DatabaseException", "Units already exist"), db)
        ELSE Made(Insert(db, "Units", [unitShort |-> Enquote(short),
                                       unitLong |-> Enquote(long),
                                       unitDesc |-> Enquote(desc)], now))
  IN New(GetUnits(long, NoID))

CreateNewSensor(name, desc, units) ==
  LET Made(parts, device, ins) ==
        Done(Sensor(parts[5], desc, device, units, ins.lastID), ins.db)
      Add(parts, device) ==
        IF device.k = "raise" THEN Done(device, db)
        ELSE IF ~HasID(device.v) \/ ~HasID(units) THEN Done(NoAttr, db)
        ELSE Made(parts, device.v,
                  Insert(db, "Sensors", [senName |-> Enquote(parts[5]),
                                         senDesc |-> Enquote(desc),
                                         devID |-> device.v.ID,
                                         unitID |-> units.ID], now))
      New(parts, dup) ==
        IF dup.k = "raise" THEN Done(dup, db)
        ELSE IF Truthy(dup.v)
        THEN Done(Raise("DatabaseException", "Sensor already exists"), db)
        ELSE Add(parts, GetDevice(Sep(<<parts[1], parts[2], parts[3], parts[4]>>), NoID))
      Named(parts) ==
        IF parts.k = "raise" THEN Done(parts, db)
        ELSE IF ~Truthy(units)
        THEN Done(Raise("DatabaseException", "Units required"), db)
        ELSE New(parts.v, GetSensor(name, NoID))
  IN Named(Unpack(name, 5))

-----------------------------------------------------------------------------
(* Records                                                                 *)

\* RecordMeasurement without the test for an absent sensor
RecordMeasurementNoSensorTest(sensor, data, error, t) ==
  IF ~HasID(sensor) THEN Done(NoAttr, db)
  ELSE LET ins == Insert(db, "Records", [recData |-> data, recError |-> error,
                                         senID |-> sensor.ID], t)
           DTG == Select(ins.db, "Records", <<"recDTG">>, [recID |-> EQ(ins.lastID)])[1][1]
       IN Done(Record(data, error, sensor, ins.lastID, DTG), ins.db)

\* Database.RecordMeasurement; t is the server time of the INSERT
RecordMeasurement(sensor, data, error, t) ==
  IF ~Truthy(sensor)
  THEN Done(Raise("DatabaseException", "Invalid sensor"), db)
  ELSE IF ~HasID(sensor) THEN Done(NoAttr, db)
  ELSE LET ins == Insert(db, recTable, [recData |-> data, recError |-> error,
                                        senID |-> sensor.ID], t)
           DTG == Select(ins.db, recTable, <<"recDTG">>, [recID |-> EQ(ins.lastID)])[1][1]
       IN Done(Record(data, error, sensor, ins.lastID, DTG), ins.db)

\* RecordSet.__init__
RecordSet(records) ==
  [type |-> "RecordSet",
   times |-> [i \in 1..Len(records) |-> records[i].DTG],
   data |-> [i \in 1..Len(records) |-> records[i].data],
   error |-> [i \in 1..Len(records) |-> records[i].error],
   sensor |-> records[1].sensor,
   N |-> Len(records)]

\* the orders ORDER BY recDTG allows for the rows: every arrangement of them
\* that is sorted on recDTG (rows of equal recDTG come in any order)
Arrangements(rows, desc) ==
  LET n == Len(rows)
      perms == {p \in [1..n -> 1..n] : \A i, j \in 1..n : i # j => p[i] # p[j]}
      Sorted(p) == \A i \in 1..(n - 1) :
                     IF desc THEN rows[p[i]].recDTG >= rows[p[i + 1]].recDTG
                     ELSE rows[p[i]].recDTG <= rows[p[i + 1]].recDTG
  IN {[i \in 1..n |-> rows[p[i]]] : p \in {q \in perms : Sorted(q)}}

\* Database.Select with order: the set of results the statement may return
SelectOrdered(d, table, columns, order, conds) ==
  LET rows == Matching(d, table, conds) IN
  IF order = "recDTG ASC"
  THEN {Project_(a, columns) : a \in Arrangements(rows, FALSE)}
  ELSE \* 'recDTG DESC LIMIT 1'
       {Project_(IF a = <<>> THEN a ELSE <<a[1]>>, columns) : a \in Arrangements(rows, TRUE)}

\* GetRecords without the condition on senID
GetRecordsOfAnySensor(sensor, startTime, endTime) ==
  IF ~Truthy(sensor) THEN {Raise("DatabaseException", "Sensor Required")}
  ELSE IF ~HasID(sensor) THEN {NoAttr}
  ELSE
  {IF rows = <<>> THEN Ret(None)
   ELSE Ret(RecordSet([i \in 1..Len(rows) |->
                        Record(rows[i][1], rows[i][2], sensor, rows[i][4], rows[i][3]).v]))
   : rows \in SelectOrdered(db, recTable, <<"recData", "recError", "recDTG", "recID">>,
                            "recDTG ASC",
                            [recDTG |-> InRange(EnDate(startTime), EnDate(endTime))])}

\* Database.GetRecords: the set of results the call may have
GetRecords(sensor, startTime, endTime) ==
  IF ~Truthy(sensor) THEN {Raise("DatabaseException", "Sensor Required")}
  ELSE IF ~HasID(sensor) THEN {NoAttr}
  ELSE
  {IF rows = <<>> THEN Ret(None)
   ELSE Ret(RecordSet([i \in 1..Len(rows) |->
                        Record(rows[i][1], rows[i][2], sensor, rows[i][4], rows[i][3]).v]))
   : rows \in SelectOrdered(db, recTable, <<"recData", "recError", "recDTG", "recID">>,
                            "recDTG ASC",
                            [senID |-> EQ(sensor.ID),
                             recDTG |-> InRange(EnDate(startTime), EnDate(endTime))])}

\* GetMostRecentRecord with the order ascending: the first row is the oldest
GetOldestRecord(sensor) ==
  IF ~Truthy(sensor) THEN {Raise("DatabaseException", "Sensor Required")}
  ELSE IF ~HasID(sensor) THEN {NoAttr}
  ELSE
  {IF rows = <<>> THEN Ret(None)
   ELSE Record(rows[1][1], rows[1][2], sensor, rows[1][4], rows[1][3])
   : rows \in SelectOrdered(db, recTable, <<"recData", "recError", "recDTG", "recID">>,
                            "recDTG ASC", [senID |-> EQ(sensor.ID)])}

\* Database.GetMostRecentRecord: the set of results the call may have
GetMostRecentRecord(sensor) ==
  IF ~Truthy(sensor) THEN {Raise("DatabaseException", "Sensor Required")}
  ELSE IF ~HasID(sensor) THEN {NoAttr}
  ELSE
  {IF rows = <<>> THEN Ret(None)
   ELSE Record(rows[1][1], rows[1][2], sensor, rows[1][4], rows[1][3])
   : rows \in SelectOrdered(db, recTable, <<"recData", "recError", "recDTG", "recID">>,
                            "recDTG DESC LIMIT 1", [senID |-> EQ(sensor.ID)])}

-----------------------------------------------------------------------------
(* The arguments the calls are made with                                   *)

A == <<"a">>
B == <<"b">>
D == <<"d">>
U == <<"u">>

\* rows a session may add to the database it opened
MaxInserts == 2

EmptyDB == [t \in Tables |-> <<>>]

\* The database the connection opens: a chain a.a.a.a.a with its manufacturer
\* and its units and one measurement at time 0, each row as the call that
\* creates it writes it
SeedDB ==
  LET d1 == Insert(EmptyDB, "Owners", [ownerName |-> Enquote(A), ownerDesc |-> Enquote(D)], 0).db
      d2 == Insert(d1, "Projects", [projName |-> Enquote(A), projDesc |-> Enquote(D),
                                    ownerID |-> 1], 0).db
      d3 == Insert(d2, "Systems", [sysName |-> Enquote(A), sysDesc |-> Enquote(D),
                                   projID |-> 1], 0).db
      d4 == Insert(d3, "Manufacturers", [mfgName |-> Enquote(A), mfgDesc |-> Enquote(D),
                                         mfgURL |-> Enquote(U)], 0).db
      d5 == Insert(d4, "Devices", [devName |-> Enquote(A), devDesc |-> Enquote(D),
                                   devURL |-> Enquote(U), mfgID |-> 1, sysID |-> 1], 0).db
      d6 == Insert(d5, "Units", [unitShort |-> Enquote(A), unitLong |-> Enquote(A),
                                 unitDesc |-> Enquote(D)], 0).db
      d7 == Insert(d6, "Sensors", [senName |-> Enquote(A), senDesc |-> Enquote(D),
                                   devID |-> 1, unitID |-> 1], 0).db
  IN Insert(d7, recTable, [recData |-> 1, recError |-> 1, senID |-> 1], 0).db

RECURSIVE SumLen(_, _)
SumLen(d, ts) == IF ts = {} THEN 0
                 ELSE LET t == CHOOSE x \in ts : TRUE IN Len(d[t]) + SumLen(d, ts \ {t})

TotalRows(d) == SumLen(d, Tables)

Budget(d) == TotalRows(d) <= TotalRows(SeedDB) + MaxInserts

\* dotted names of k components over a and b with at most one b
Paths(k) == {p \in [1..k -> {A, B}] : Cardinality({i \in 1..k : p[i] = B}) <= 1}

Dotted(k) == {Join(p) : p \in Paths(k)}

\* the names given for level k: the dotted names of k components, one of k-1
\* components (the empty name at level 1) and, at level 1, one that holds a dot
Names(k) == Dotted(k) \cup {Join([i \in 1..(k - 1) |-> A])}
              \cup (IF k = 1 THEN {Join(<<A, B>>)} ELSE {})

Descs == {D, <<>>}
URLs == {U}
Values == {1, 2}
Errors == {1}
\* the ends of the ranges asked for: the times at which a record may have
\* been taken so far and one after them
Times == 0..(now + 1)
GetIDs == {1, 2}

\* a name of level k whose chain starts at owner b
Other(k) == Join([i \in 1..k |-> IF i = 1 THEN B ELSE A])

\* the arguments of a Get call: a name (ID=None), or an ID with the default
\* name '' or with the name other
GetArgs(names, other) ==
  {<<n, NoID>> : n \in names} \cup {<<n, i>> : n \in {<<>>, other}, i \in GetIDs}

\* objects a caller builds itself, with the constructors
NewOwner(ID) == Owner(A, D, ID).v
NewProject(ID) == Project(A, D, NewOwner(1), ID).v
NewSystem(ID) == System(A, D, NewProject(1), ID).v
NewManufacturer(ID) == Manufacturer(A, D, U, ID).v
NewDevice(ID) == Device(A, D, NewSystem(1), U, NewManufacturer(1), ID).v
NewUnits(ID) == Units(A, A, D, ID).v
NewSensor(ID) == Sensor(A, D, NewDevice(1), NewUnits(1), ID).v

Fetched(r) == r.k = "ret" /\ Truthy(r.v)

\* obj has the id of a row of table
Stored(obj, table) == Truthy(obj) /\ obj.ID \in 1..Len(db[table])

\* a manufacturer / units / sensor argument: None, an object a Get call
\* returned, or an object the caller built with an id no row has
MfgArgs ==
  {None, NewManufacturer(Len(db.Manufacturers) + 1)}
    \cup {GetManufacturer(<<>>, i).v :
            i \in {j \in 1..Len(db.Manufacturers) : Fetched(GetManufacturer(<<>>, j))}}

UnitsArgs ==
  {None, NewUnits(Len(db.Units) + 1)}
    \cup {GetUnits(<<>>, i).v : i \in {j \in 1..Len(db.Units) : Fetched(GetUnits(<<>>, j))}}

SensorArgs ==
  {None, NewSensor(Len(db.Sensors) + 1)}
    \cup {GetSensor(<<>>, i).v : i \in {j \in 1..Len(db.Sensors) : Fetched(GetSensor(<<>>, j))}}

-----------------------------------------------------------------------------
(* The caller: it makes one call at a time (the library is synchronous),   *)
(* holds the result in last, and drops it before the next call.            *)

NoCall == [op |-> "none"]

\* the RecordMeasurement calls that run side by side: none has started
Callers == {1, 2}
NoCalls == [c \in Callers |-> [pc |-> "idle"]]

\* RecordSet.WriteCSV has not been called
NoWrite == [pc |-> "idle"]

Init == db = SeedDB /\ now = 0 /\ last = NoCall /\ calls = NoCalls /\ csv = NoWrite

\* a call that ends with result r.res and leaves the store r.db
Idle == last.op = "none"

Call(op, args, r) ==
  /\ Budget(r.db)
  /\ db' = r.db
  /\ last' = [op |-> op, args |-> args, res |-> r.res]
  /\ UNCHANGED <<calls, csv>>

Discard == last.op # "none" /\ last' = NoCall /\ UNCHANGED <<db, now, calls, csv>>

DoCreateNewOwner ==
  Idle /\ \E name \in Names(1), desc \in Descs :
    Call("CreateNewOwner", [name |-> name, desc |-> desc], CreateNewOwner(name, desc))
    /\ UNCHANGED now

DoCreateNewProject ==
  Idle /\ \E name \in Names(2), desc \in Descs :
    Call("CreateNewProject", [name |-> name, desc |-> desc], CreateNewProject(name, desc))
    /\ UNCHANGED now

DoCreateNewSystem ==
  Idle /\ \E name \in Names(3), desc \in Descs :
    Call("CreateNewSystem", [name |-> name, desc |-> desc], CreateNewSystem(name, desc))
    /\ UNCHANGED now

DoCreateNewManufacturer ==
  Idle /\ \E name \in {A, B}, desc \in Descs, URL \in URLs :
    Call("CreateNewManufacturer", [name |-> name, desc |-> desc, URL |-> URL],
         CreateNewManufacturer(name, desc, URL))
    /\ UNCHANGED now

\* (an empty description is given together with a manufacturer a Get call
\* returned)
DoCreateNewDevice ==
  Idle /\ \E name \in Names(4), desc \in Descs, URL \in URLs, mfg \in MfgArgs :
    /\ desc = <<>> => Stored(mfg, "Manufacturers")
    /\ Call("CreateNewDevice", [name |-> name, desc |-> desc, URL |-> URL, mfg |-> mfg],
         CreateNewDevice(name, desc, URL, mfg))
    /\ UNCHANGED now

DoCreateNewUnits ==
  Idle /\ \E short \in {A}, long \in {A, B}, desc \in Descs :
    Call("CreateNewUnits", [short |-> short, name |-> long, desc |-> desc],
         CreateNewUnits(short, long, desc))
    /\ UNCHANGED now

\* (an empty description is given together with units a Get call returned)
DoCreateNewSensor ==
  Idle /\ \E name \in Names(5), desc \in Descs, units \in UnitsArgs :
    /\ desc = <<>> => Stored(units, "Units")
    /\ Call("CreateNewSensor", [name |-> name, desc |-> desc, units |-> units],
         CreateNewSensor(name, desc, units))
    /\ UNCHANGED now

Query(op, name, ID, res) ==
  Call(op, [name |-> name, ID |-> ID], Done(res, db)) /\ UNCHANGED now

DoGetOwner ==
  Idle /\ \E a \in GetArgs(Names(1), Other(1)) : Query("GetOwner", a[1], a[2], GetOwner(a[1], a[2]))

DoGetProject ==
  Idle /\ \E a \in GetArgs(Names(2), Other(2)) : Query("GetProject", a[1], a[2], GetProject(a[1], a[2]))

DoGetSystem ==
  Idle /\ \E a \in GetArgs(Names(3), Other(3)) : Query("GetSystem", a[1], a[2], GetSystem(a[1], a[2]))

DoGetManufacturer ==
  Idle /\ \E a \in GetArgs({A, B}, B) :
    Query("GetManufacturer", a[1], a[2], GetManufacturer(a[1], a[2]))

DoGetDevice ==
  Idle /\ \E a \in GetArgs(Names(4), Other(4)) : Query("GetDevice", a[1], a[2], GetDevice(a[1], a[2]))

DoGetUnits ==
  Idle /\ \E a \in GetArgs({A, B}, B) : Query("GetUnits", a[1], a[2], GetUnits(a[1], a[2]))

DoGetSensor ==
  Idle /\ \E a \in GetArgs(Names(5), Other(5)) : Query("GetSensor", a[1], a[2], GetSensor(a[1], a[2]))

DoRecordMeasurement ==
  Idle /\ \E sensor \in SensorArgs, data \in Values, error \in Errors, t \in {now, now + 1} :
    /\ Call("RecordMeasurement", [sensor |-> sensor, data |-> data, error |-> error],
            RecordMeasurement(sensor, data, error, t))
    /\ now' = IF Len(db'[recTable]) > Len(db[recTable]) THEN t ELSE now

DoGetRecords ==
  Idle /\ \E sensor \in SensorArgs, startTime \in Times, endTime \in Times :
    \E res \in GetRecords(sensor, startTime, endTime) :
      Call("GetRecords", [sensor |-> sensor, startTime |-> startTime, endTime |-> endTime],
           Done(res, db))
      /\ UNCHANGED now

DoGetMostRecentRecord ==
  Idle /\ \E sensor \in SensorArgs :
    \E res \in GetMostRecentRecord(sensor) :
      Call("GetMostRecentRecord", [sensor |-> sensor], Done(res, db))
      /\ UNCHANGED now

Next ==
  \/ DoCreateNewOwner
  \/ DoCreateNewProject
  \/ DoCreateNewSystem
  \/ DoCreateNewManufacturer
  \/ DoCreateNewDevice
  \/ DoCreateNewUnits
  \/ DoCreateNewSensor
  \/ DoGetOwner
  \/ DoGetProject
  \/ DoGetSystem
  \/ DoGetManufacturer
  \/ DoGetDevice
  \/ DoGetUnits
  \/ DoGetSensor
  \/ DoRecordMeasurement
  \/ DoGetRecords
  \/ DoGetMostRecentRecord
  \/ Discard

Spec == Init /\ [][Next]_vars

-----------------------------------------------------------------------------
(* The constructors on their own: ModelSpec calls each constructor of the  *)
(* model classes with texts at and around the length limits and with       *)
(* parent / manufacturer / units arguments of every kind.                  *)

NameTexts == {Rep(0), Rep(1), Rep(MaxNameLen), Rep(MaxNameLen + 1)}
ShortTexts == {Rep(0), Rep(1), Rep(MaxShortLen), Rep(MaxShortLen + 1)}
LongTexts == {Rep(0), Rep(1), Rep(MaxTextLen), Rep(MaxTextLen + 1)}

Objects == {None, Str(<<>>), Str(A), NewOwner(1), NewProject(1), NewSystem(1),
            NewManufacturer(1), NewDevice(1), NewUnits(1), NewSensor(1)}

Constructed(class, args, res) ==
  /\ last' = [op |-> class, args |-> args, res |-> res]
  /\ UNCHANGED <<db, now, calls, csv>>

ConstructOwner ==
  Idle /\ \E name \in NameTexts, desc \in LongTexts :
    Constructed("Owner", [name |-> name, desc |-> desc], Owner(name, desc, NoID))

ConstructProject ==
  Idle /\ \E name \in NameTexts, desc \in LongTexts, owner \in Objects :
    Constructed("Project", [name |-> name, desc |-> desc, parent |-> owner],
                Project(name, desc, owner, NoID))

ConstructSystem ==
  Idle /\ \E name \in NameTexts, desc \in LongTexts, project \in Objects :
    Constructed("System", [name |-> name, desc |-> desc, parent |-> project],
                System(name, desc, project, NoID))

ConstructManufacturer ==
  Idle /\ \E name \in NameTexts, desc \in LongTexts, URL \in LongTexts :
    Constructed("Manufacturer", [name |-> name, desc |-> desc, URL |-> URL],
                Manufacturer(name, desc, URL, NoID))

ConstructDevice ==
  Idle /\ \E name \in NameTexts, desc \in LongTexts, system \in Objects,
             URL \in LongTexts, mfg \in Objects :
    Constructed("Device", [name |-> name, desc |-> desc, parent |-> system,
                           URL |-> URL, mfg |-> mfg],
                Device(name, desc, system, URL, mfg, NoID))

ConstructUnits ==
  Idle /\ \E short \in ShortTexts, long \in LongTexts, desc \in LongTexts :
    Constructed("Units", [short |-> short, long |-> long, desc |-> desc],
                Units(short, long, desc, NoID))

ConstructSensor ==
  Idle /\ \E name \in NameTexts, desc \in LongTexts, device \in Objects, units \in Objects :
    Constructed("Sensor", [name |-> name, desc |-> desc, parent |-> device,
                           units |-> units],
                Sensor(name, desc, device, units, NoID))

ModelInit == db = EmptyDB /\ now = 0 /\ last = NoCall /\ calls = NoCalls /\ csv = NoWrite

ModelNext ==
  \/ ConstructOwner
  \/ ConstructProject
  \/ ConstructSystem
  \/ ConstructManufacturer
  \/ ConstructDevice
  \/ ConstructUnits
  \/ ConstructSensor
  \/ Discard

ModelSpec == ModelInit /\ [][ModelNext]_vars

-----------------------------------------------------------------------------
(* Claims about the constructors (checked under ModelSpec)                 *)

Groups == {"Owner", "Project", "System", "Manufacturer", "Device", "Sensor"}

ParentClass == [Project |-> "Owner", System |-> "Project", Device |-> "System",
                Sensor |-> "Device"]

Fails(res) == res.k = "raise" /\ res.exc = "ModelException"

\* the texts of a constructor call with their bounds
TextFields(op, a) ==
  IF op = "Units"
  THEN {<<a.short, MaxShortLen>>, <<a.long, MaxTextLen>>, <<a.desc, MaxTextLen>>}
  ELSE {<<a.name, MaxNameLen>>, <<a.desc, MaxTextLen>>}
         \cup (IF op \in {"Manufacturer", "Device"} THEN {<<a.URL, MaxTextLen>>} ELSE {})

\* a violation C6 lists: a text over its bound, an empty text, a parent that
\* is absent or of another class
Listed(op, a) ==
  \/ \E f \in TextFields(op, a) : Len(f[1]) > f[2] \/ f[1] = <<>>
  \/ op \in DOMAIN ParentClass /\ a.parent.type # ParentClass[op]

\* the manufacturer of a Device / the units of a Sensor is absent (false)
Unrelated(op, a) ==
  \/ op = "Device" /\ ~Truthy(a.mfg)
  \/ op = "Sensor" /\ ~Truthy(a.units)

\* C6 as claimed: a constructor call with a listed violation fails with a
\* ModelException, and the call succeeds exactly when no listed violation is
\* present.  Refuted by Device(..., mfg=None) and Sensor(..., units=None).
C6_AsClaimed ==
  last.op \in Classes =>
    /\ Listed(last.op, last.args) => Fails(last.res)
    /\ last.res.k = "ret" <=> ~Listed(last.op, last.args)

\* C6 as amended: a constructor call with a listed violation fails with a
\* ModelException whatever the other arguments; the call succeeds exactly
\* when no listed violation is present and the manufacturer of a Device, the
\* units of a Sensor, is not absent.
C6_Construction ==
  last.op \in Classes =>
    /\ Listed(last.op, last.args) => Fails(last.res)
    /\ last.res.k = "ret" <=>
         ~Listed(last.op, last.args) /\ ~Unrelated(last.op, last.args)

\* a Device with a name one over the bound and every other argument valid
C6_Witness ==
  /\ last.op = "Device"
  /\ Len(last.args.name) = MaxNameLen + 1
  /\ Len(last.args.desc) = MaxTextLen /\ Len(last.args.URL) = MaxTextLen
  /\ last.args.parent.type = "System" /\ last.args.mfg.type = "Manufacturer"
  /\ Fails(last.res)

\* C7 as claimed: a Device whose manufacturer is not a Manufacturer, a Sensor
\* whose units are not a Units, fails with a ModelException.  Refuted: the
\* constructors test the argument for truth only.
C7_AsClaimed ==
  /\ last.op = "Device" /\ last.args.mfg.type # "Manufacturer" => Fails(last.res)
  /\ last.op = "Sensor" /\ last.args.units.type # "Units" => Fails(last.res)

-----------------------------------------------------------------------------
(* Claims about the Database (checked under Spec).  What the store holds   *)
(* is read off the tables directly, not through the Get methods.           *)

LevelTable == <<"Owners", "Projects", "Systems", "Devices", "Sensors">>
NameColumn == <<"ownerName", "projName", "sysName", "devName", "senName">>
ParentColumn == <<"none", "ownerID", "projID", "sysID", "devID">>
CreateOps == <<"CreateNewOwner", "CreateNewProject", "CreateNewSystem",
               "CreateNewDevice", "CreateNewSensor">>
GetOps == <<"GetOwner", "GetProject", "GetSystem", "GetDevice", "GetSensor">>
AllCreateOps == {CreateOps[k] : k \in 1..5} \cup {"CreateNewManufacturer", "CreateNewUnits"}

Ids(table) == 1..Len(db[table])

RECURSIVE Chain(_, _)
\* the rows of level k that the first k components of parts name
Chain(parts, k) ==
  {i \in Ids(LevelTable[k]) :
     /\ db[LevelTable[k]][i][NameColumn[k]] = parts[k]
     /\ k > 1 => db[LevelTable[k]][i][ParentColumn[k]] \in Chain(parts, k - 1)}

GetByName(k, name) ==
  CASE k = 1 -> GetOwner(name, NoID)
    [] k = 2 -> GetProject(name, NoID)
    [] k = 3 -> GetSystem(name, NoID)
    [] k = 4 -> GetDevice(name, NoID)
    [] k = 5 -> GetSensor(name, NoID)

DbError(res) == res.k = "raise" /\ res.exc = "DatabaseException"

\* C1 as claimed: after a successful Create<Entity>(N, ...) for a name N of k
\* components, Get<Entity>(N) returns an entity whose Nomenclature() is N and
\* whose id is the id the Create call returned.  Refuted at the Device and
\* Sensor level when the manufacturer / units argument has an id no row has.
C1_AsClaimed ==
  \A k \in 1..5 :
    (last.op = CreateOps[k] /\ last.res.k = "ret" /\ Len(Split(last.args.name)) = k) =>
      LET g == GetByName(k, last.args.name) IN
        /\ g.k = "ret"
        /\ Truthy(g.v)
        /\ Nomenclature(g.v) = last.args.name
        /\ g.v.ID = last.res.v.ID

\* the call of the step is a Create whose terminal name exists under the
\* parent its name resolves to / exists under another parent only
ValidCreateArgs(k, a, parts) ==
  /\ a.desc # <<>> /\ parts[k] # <<>>
  /\ k = 4 => Truthy(a.mfg) /\ a.URL # <<>>
  /\ k = 5 => Truthy(a.units)

C2_Step ==
  /\ \A k \in 1..5 :
       (Idle /\ last'.op = CreateOps[k] /\ Len(Split(last'.args.name)) = k) =>
         LET parts == Split(last'.args.name) IN
           /\ Chain(parts, k) # {} => DbError(last'.res)
           /\ ( /\ k > 1
                /\ Chain(parts, k) = {}
                /\ Chain(parts, k - 1) # {}
                /\ \E i \in Ids(LevelTable[k]) :
                     db[LevelTable[k]][i][NameColumn[k]] = parts[k]
                /\ ValidCreateArgs(k, last'.args, parts) ) => last'.res.k = "ret"
  /\ (Idle /\ last'.op = "CreateNewManufacturer"
        /\ \E i \in Ids("Manufacturers") : db.Manufacturers[i].mfgName = last'.args.name)
       => DbError(last'.res)
  /\ (Idle /\ last'.op = "CreateNewUnits"
        /\ \E i \in Ids("Units") : db.Units[i].unitLong = last'.args.name)
       => DbError(last'.res)

\* C2 as claimed: a Create call whose terminal name exists under the parent
\* its name resolves to fails with a DatabaseException; a Create call whose
\* terminal name exists under another parent only succeeds.  Refuted when the
\* existing row, or a row of its chain, does not pass its constructor.
C2_AsClaimed == [][C2_Step]_vars

AncestorError ==
  <<Raise("DatabaseException", "Invalid owner name"),
    Raise("DatabaseException", "Invalid project name"),
    Raise("DatabaseException", "System does not exist"),
    Raise("DatabaseException", "Device not found")>>

\* C3 as claimed: Get<Entity>(name) fails with the DatabaseException of the
\* first level of the chain that is missing, and returns None when every
\* ancestor exists and the leaf does not.  Refuted when a row of the chain
\* does not pass its constructor.
C3_AsClaimed ==
  \A k \in 1..5 :
    (last.op = GetOps[k] /\ last.args.ID = NoID /\ Len(Split(last.args.name)) = k) =>
      LET parts == Split(last.args.name)
          missing == {i \in 1..(k - 1) : Chain(parts, i) = {}}
      IN IF missing # {}
         THEN last.res = AncestorError[CHOOSE i \in missing : \A j \in missing : i <= j]
         ELSE Chain(parts, k) = {} => last.res = Ret(None)

\* no two rows of the table agree on all the columns of key
UniqueKey(table, key) ==
  \A i, j \in Ids(table) :
    i # j => \E c \in key : db[table][i][c] # db[table][j][c]

\* C4: no two Owners share a name, no two Manufacturers a name, no two Units
\* a long-form name, and no two Projects / Systems / Devices / Sensors the
\* same parent id and name.
C4_Unique ==
  /\ UniqueKey("Owners", {"ownerName"})
  /\ UniqueKey("Manufacturers", {"mfgName"})
  /\ UniqueKey("Units", {"unitLong"})
  /\ UniqueKey("Projects", {"ownerID", "projName"})
  /\ UniqueKey("Systems", {"projID", "sysName"})
  /\ UniqueKey("Devices", {"sysID", "devName"})
  /\ UniqueKey("Sensors", {"devID", "senName"})

\* a second project under owner 1 is stored and the call just made was
\* refused as a duplicate
C4_Witness ==
  /\ last.op = "CreateNewProject"
  /\ last.res = Raise("DatabaseException", "Project already exists")
  /\ \E i, j \in Ids("Projects") : i # j /\ db.Projects[i].ownerID = db.Projects[j].ownerID

\* C5 as claimed: a Create call that ends in a ModelException leaves the
\* store as it was.  Refuted: the row is inserted before the constructor of
\* the returned object checks the texts.
C5_AsClaimed ==
  [][(Idle /\ last'.op \in AllCreateOps /\ Fails(last'.res)) => db' = db]_vars

\* the rows of the record table that belong to sensor and lie in [t0, t1]
RecordsOf(sensor, t0, t1) ==
  {i \in Ids(recTable) :
     /\ db[recTable][i].senID = sensor.ID
     /\ t0 <= db[recTable][i].recDTG
     /\ db[recTable][i].recDTG <= t1}

\* the step is a RecordMeasurement call that did what C8 says of it
RecordMeasurementStep ==
  LET a == last'.args
      n == Len(db[recTable])
  IN IF ~Truthy(a.sensor)
     THEN DbError(last'.res) /\ db' = db
     ELSE /\ Len(db'[recTable]) = n + 1
          /\ db'[recTable][n + 1].senID = a.sensor.ID
          /\ db'[recTable][n + 1].recData = a.data
          /\ db'[recTable][n + 1].recError = a.error
          /\ last'.res.k = "ret"
          /\ last'.res.v.type = "Record"
          /\ last'.res.v.ID = db'[recTable][n + 1].recID
          /\ \A t \in Tables \ {recTable} : db'[t] = db[t]

\* C8: RecordMeasurement with an absent sensor fails with a
\* DatabaseException and adds no row; otherwise it appends exactly one row
\* for that sensor and returns a Record with the id of that row.  Every step
\* keeps every row of the record table as it was, and no step other than a
\* RecordMeasurement call changes the record table.
C8_RecordMeasurement ==
  [][ /\ (Idle /\ last'.op = "RecordMeasurement") => RecordMeasurementStep
      /\ Len(db'[recTable]) >= Len(db[recTable])
      /\ \A i \in Ids(recTable) : db'[recTable][i] = db[recTable][i]
      /\ last'.op # "RecordMeasurement" => db'[recTable] = db[recTable] ]_vars

\* a measurement of sensor 1 has just been added to the seeded one
C8_Witness ==
  /\ last.op = "RecordMeasurement"
  /\ last.res.k = "ret"
  /\ last.res.v.ID = 2
  /\ Len(db[recTable]) = 2
  /\ db[recTable][2].senID = 1

\* C9: GetRecords(sensor, t0, t1) fails with a DatabaseException when sensor
\* is absent; otherwise it returns None when no record of the sensor has its
\* time in [t0, t1], and else a RecordSet whose N is the number of those
\* records, whose times ascend, and whose entries are those records one for
\* one.
C9_GetRecords ==
  last.op = "GetRecords" =>
    LET a == last.args IN
    IF ~Truthy(a.sensor) THEN DbError(last.res)
    ELSE LET Q == RecordsOf(a.sensor, a.startTime, a.endTime) IN
      /\ last.res.k = "ret"
      /\ IF Q = {} THEN last.res.v = None
         ELSE LET s == last.res.v IN
           /\ s.type = "RecordSet"
           /\ s.N = Cardinality(Q)
           /\ Len(s.times) = s.N /\ Len(s.data) = s.N /\ Len(s.error) = s.N
           /\ s.sensor = a.sensor
           /\ \A i \in 1..(s.N - 1) : s.times[i] <= s.times[i + 1]
           /\ \E f \in [1..s.N -> Q] :
                /\ \A i, j \in 1..s.N : i # j => f[i] # f[j]
                /\ \A i \in 1..s.N :
                     /\ s.times[i] = db[recTable][f[i]].recDTG
                     /\ s.data[i] = db[recTable][f[i]].recData
                     /\ s.error[i] = db[recTable][f[i]].recError

\* two of the three stored records, taken at different times, are returned
\* and a record of another sensor is left out
C9_Witness ==
  /\ last.op = "GetRecords"
  /\ last.res.k = "ret"
  /\ last.res.v.type = "RecordSet"
  /\ last.res.v.N = 2
  /\ last.res.v.times[1] < last.res.v.times[2]
  /\ Len(db[recTable]) = 3
  /\ \E i \in Ids(recTable) : db[recTable][i].senID # last.args.sensor.ID

\* C10: GetMostRecentRecord(sensor) fails with a DatabaseException when
\* sensor is absent; otherwise it returns None when the sensor has no record,
\* and else one record of that sensor whose time is at least the time of
\* every record of that sensor.
C10_GetMostRecentRecord ==
  last.op = "GetMostRecentRecord" =>
    LET a == last.args IN
    IF ~Truthy(a.sensor) THEN DbError(last.res)
    ELSE LET Q == {i \in Ids(recTable) : db[recTable][i].senID = a.sensor.ID} IN
      /\ last.res.k = "ret"
      /\ IF Q = {} THEN last.res.v = None
         ELSE LET r == last.res.v IN
           /\ r.type = "Record"
           /\ r.sensor = a.sensor
           /\ r.ID \in Q
           /\ db[recTable][r.ID].recID = r.ID
           /\ db[recTable][r.ID].recDTG = r.DTG
           /\ db[recTable][r.ID].recData = r.data
           /\ db[recTable][r.ID].recError = r.error
           /\ \A i \in Q : db[recTable][i].recDTG <= r.DTG

\* the later of two records of the sensor, taken at different times, is
\* returned
C10_Witness ==
  /\ last.op = "GetMostRecentRecord"
  /\ last.res.k = "ret"
  /\ last.res.v.type = "Record"
  /\ \E i \in Ids(recTable) :
       /\ db[recTable][i].senID = last.args.sensor.ID
       /\ db[recTable][i].recDTG < last.res.v.DTG

SideTable == [GetManufacturer |-> "Manufacturers", GetUnits |-> "Units"]
SideName == [GetManufacturer |-> "mfgName", GetUnits |-> "unitLong"]

\* the result of a Get call by id on table, whose rows carry their name in
\* column col, is the entity of the row with that id, or None when there is
\* no such row
ByID(table, col, ID, res) ==
  IF ID \in Ids(table)
  THEN /\ res.k = "ret"
       /\ Truthy(res.v)
       /\ res.v.ID = ID
       /\ (IF table = "Units" THEN res.v.long ELSE res.v.name) = db[table][ID][col]
  ELSE res = Ret(None)

\* C11 as claimed: a Get call that is given an id returns the entity of the
\* row with that id, or None when no row has it, whatever the name says; it
\* raises no error.  Refuted when the row, or a row it refers to, does not
\* pass its constructor.
C11_AsClaimed ==
  (last.op \in {GetOps[k] : k \in 1..5} \cup DOMAIN SideTable /\ last.args.ID # NoID) =>
    IF last.op \in DOMAIN SideTable
    THEN ByID(SideTable[last.op], SideName[last.op], last.args.ID, last.res)
    ELSE \A k \in 1..5 :
           last.op = GetOps[k] =>
             ByID(LevelTable[k], NameColumn[k], last.args.ID, last.res)

GetByID(k, ID) ==
  CASE k = 1 -> GetOwner(<<>>, ID)
    [] k = 2 -> GetProject(<<>>, ID)
    [] k = 3 -> GetSystem(<<>>, ID)
    [] k = 4 -> GetDevice(<<>>, ID)
    [] k = 5 -> GetSensor(<<>>, ID)

\* the entity of level k with id i, as Get returns it, is named as its level
\* asks: its nomenclature is its parent's, a dot and its own name, and splits
\* on the dot into k components
WellNamed(k, i, r) ==
  Fetched(r) =>
    /\ r.v.name = db[LevelTable[k]][i][NameColumn[k]]
    /\ Nomenclature(r.v) =
         (IF k = 1 THEN r.v.name ELSE Nomenclature(r.v.parent) \o <<Dot>> \o r.v.name)
    /\ Len(Split(Nomenclature(r.v))) = k

\* C12 as claimed: in every reachable state no persisted name of the
\* hierarchy holds a dot, and the nomenclature of every persisted entity of
\* level k is its parent's nomenclature, a dot and its own name, and splits
\* into exactly k components.  Refuted by an owner created under a name that
\* holds a dot.
C12_AsClaimed ==
  \A k \in 1..5 : \A i \in Ids(LevelTable[k]) :
    /\ \A j \in 1..Len(db[LevelTable[k]][i][NameColumn[k]]) :
         db[LevelTable[k]][i][NameColumn[k]][j] # Dot
    /\ WellNamed(k, i, GetByID(k, i))

-----------------------------------------------------------------------------
(* Two RecordMeasurement calls side by side.  A call makes its store       *)
(* requests one after the other: the INSERT (the store gives the row its   *)
(* id and its time, the cursor of the call keeps the id), the commit, and  *)
(* the SELECT of recDTG by that id.  Between two requests of one call the  *)
(* other call may make any of its own.                                     *)

\* the store the two calls start from: the seed and a second sensor a.a.a.a.b
TwoSensorDB ==
  Insert(SeedDB, "Sensors", [senName |-> Enquote(B), senDesc |-> Enquote(D),
                             devID |-> 1, unitID |-> 1], 0).db

ConcurrentInit ==
  db = TwoSensorDB /\ now = 0 /\ last = NoCall /\ calls = NoCalls /\ csv = NoWrite

\* the sensor argument of a call: None or a sensor GetSensor returned
ConcurrentSensors == {None} \cup {GetSensor(<<>>, i).v : i \in 1..Len(TwoSensorDB.Sensors)}

\* RecordMeasurement is entered: the test of the sensor argument
Measure(c) ==
  /\ calls[c].pc = "idle"
  /\ \E sensor \in ConcurrentSensors, data \in Values, error \in Errors :
       calls' = [calls EXCEPT ![c] =
                   IF ~Truthy(sensor)
                   THEN [pc |-> "done", sensor |-> sensor, data |-> data, error |-> error,
                         res |-> Raise("DatabaseException", "Invalid sensor")]
                   ELSE [pc |-> "insert", sensor |-> sensor, data |-> data, error |-> error]]
  /\ UNCHANGED <<db, now, last, csv>>

\* Database.Insert up to cursor.getlastrowid(): the row is in the table and
\* the call holds its id
Execute(c) ==
  /\ calls[c].pc = "insert"
  /\ \E t \in {now, now + 1} :
       LET ins == Insert(db, recTable, [recData |-> calls[c].data, recError |-> calls[c].error,
                                        senID |-> calls[c].sensor.ID], t)
       IN /\ db' = ins.db
          /\ now' = t
          /\ calls' = [calls EXCEPT ![c] = [pc |-> "commit", ID |-> ins.lastID] @@ @]
  /\ UNCHANGED <<last, csv>>

\* Database.Insert: self.conn.commit() and the return of the id
Commit(c) ==
  /\ calls[c].pc = "commit"
  /\ calls' = [calls EXCEPT ![c].pc = "select"]
  /\ UNCHANGED <<db, now, last, csv>>

\* the SELECT of the timestamp by id and the Record that is returned; rows
\* notes how many rows the table held at that moment
PullTimestamp(c) ==
  /\ calls[c].pc = "select"
  /\ LET DTG == Select(db, recTable, <<"recDTG">>, [recID |-> EQ(calls[c].ID)])[1][1]
     IN calls' = [calls EXCEPT ![c] =
                    [pc |-> "done", rows |-> Len(db[recTable]),
                     res |-> Record(calls[c].data, calls[c].error, calls[c].sensor,
                                    calls[c].ID, DTG)] @@ @]
  /\ UNCHANGED <<db, now, last, csv>>

ConcurrentNext ==
  \E c \in Callers : Measure(c) \/ Execute(c) \/ Commit(c) \/ PullTimestamp(c)

ConcurrentSpec == ConcurrentInit /\ [][ConcurrentNext]_vars

\* call c has returned the Record of the row it inserted itself
OwnRow(c) ==
  /\ calls[c].res.k = "ret"
  /\ calls[c].res.v.type = "Record"
  /\ calls[c].res.v.ID \in Ids(recTable)
  /\ LET r == calls[c].res.v
         row == db[recTable][r.ID]
     IN /\ r.data = calls[c].data /\ row.recData = calls[c].data
        /\ r.error = calls[c].error /\ row.recError = calls[c].error
        /\ r.sensor = calls[c].sensor /\ row.senID = calls[c].sensor.ID
        /\ r.DTG = row.recDTG

Measured(c) == calls[c].pc = "done" /\ Truthy(calls[c].sensor)

\* C13: however the store requests of two RecordMeasurement calls with a
\* sensor interleave, each call returns the Record with the id, value and
\* error of the row it inserted; once both have returned, the two ids differ
\* and the table holds the rows it held before, unchanged, and exactly these
\* two rows after them, whichever call came first.
C13_Concurrent ==
  /\ \A c \in Callers : Measured(c) => OwnRow(c)
  /\ (\A c \in Callers : Measured(c)) =>
       /\ calls[1].res.v.ID # calls[2].res.v.ID
       /\ {calls[c].res.v.ID : c \in Callers} =
            (Len(TwoSensorDB[recTable]) + 1)..(Len(TwoSensorDB[recTable]) + 2)
       /\ SubSeq(db[recTable], 1, Len(TwoSensorDB[recTable])) = TwoSensorDB[recTable]

\* both calls have returned, for the same sensor with different values; call
\* 1 inserted first and read its timestamp after the insert of call 2
C13_Witness ==
  /\ \A c \in Callers : Measured(c)
  /\ calls[1].sensor = calls[2].sensor
  /\ calls[1].data # calls[2].data
  /\ calls[1].ID < calls[2].ID
  /\ calls[1].rows = Len(TwoSensorDB[recTable]) + 2

-----------------------------------------------------------------------------
(* RecordSet: the export to a file and the statistics.  A file is the text *)
(* written to it so far, a sequence of characters, and whether it has been *)
(* closed.  Numbers are integers, str() of one is its decimal digits, and  *)
(* the timestamps are the store's times.  A quotient is kept as the pair   *)
(* of its numerator and denominator and a square root is not evaluated.    *)

Newline == "\n"

Digits == <<"0", "1", "2", "3", "4", "5", "6", "7", "8", "9">>

RECURSIVE PyStr(_)
\* str(n) of a number n >= 0
PyStr(n) == IF n < 10 THEN <<Digits[n + 1]>>
            ELSE PyStr(n \div 10) \o <<Digits[(n % 10) + 1]>>

RECURSIVE JoinWith(_, _)
\* delim.join(parts)
JoinWith(delim, parts) ==
  IF Len(parts) = 0 THEN <<>>
  ELSE IF Len(parts) = 1 THEN parts[1]
  ELSE parts[1] \o delim \o JoinWith(delim, Tail(parts))

\* RecordSet.GetUnitsLabel
GetUnitsLabel(self) ==
  LET units == self.sensor.units
  IN IF units.type # "Units"
     THEN Raise("AttributeError", "object has no attribute 'desc'")
     ELSE Ret(units.desc \o <<" ", "(">> \o units.short \o <<")">>)

\* the records a RecordSet is built from: at most MaxRecords of one sensor,
\* taken at the times FirstTime, FirstTime + 1, ...
MaxRecords == 3
FirstTime == 9

\* a sensor as Get returns it, and one built with a text as its units
SetSensors == {NewSensor(1), Sensor(A, D, NewDevice(1), Str(A), 1).v}

RecordsOfSensor(data, error, sensor) ==
  [i \in 1..Len(data) |-> Record(data[i], error, sensor, i, FirstTime + i - 1).v]

RecordSets ==
  {RecordSet(RecordsOfSensor(data, error, sensor)) :
     data \in UNION {[1..n -> Values] : n \in 1..MaxRecords},
     error \in Errors, sensor \in SetSensors}

Delims == {<<",">>, <<";", " ">>}

\* fp.write(text) that succeeds
Write(fp, text) == [fp EXCEPT !.text = @ \o text]

WriteFailed == Raise("OSError", "write failed")

\* RecordSet.WriteCSV: fp = open(fileName,'w'), which empties the file
Open ==
  /\ last.op = "none"
  /\ csv.pc = "idle"
  /\ \E self \in RecordSets, delim \in Delims, header \in BOOLEAN :
       csv' = [pc |-> IF header THEN "header" ELSE "rows", self |-> self, delim |-> delim,
               header |-> header, i |-> 1, fp |-> [closed |-> FALSE, text |-> <<>>]]
  /\ UNCHANGED <<db, now, last, calls>>

\* the header line; building it or writing it may raise
WriteHeader ==
  /\ csv.pc = "header"
  /\ LET label == GetUnitsLabel(csv.self)
     IN IF label.k = "raise"
        THEN csv' = [pc |-> "done", res |-> label] @@ csv
        ELSE \/ csv' = [pc |-> "rows",
                        fp |-> Write(csv.fp, JoinWith(csv.delim, <<<<"D", "T", "G">>, label.v,
                                                       <<"E", "r", "r", "o", "r">>>>)
                                             \o <<Newline>>)] @@ csv
             \/ csv' = [pc |-> "done", res |-> WriteFailed] @@ csv
  /\ UNCHANGED <<db, now, last, calls>>

\* one turn of the loop over zip(self.times,self.data,self.error)
WriteRow ==
  /\ csv.pc = "rows"
  /\ csv.i <= csv.self.N
  /\ \/ csv' = [i |-> csv.i + 1,
                fp |-> Write(csv.fp, JoinWith(csv.delim, <<PyStr(csv.self.times[csv.i]),
                                                            PyStr(csv.self.data[csv.i]),
                                                            PyStr(csv.self.error[csv.i])>>)
                                     \o <<Newline>>)] @@ csv
     \/ csv' = [pc |-> "done", res |-> WriteFailed] @@ csv
  /\ UNCHANGED <<db, now, last, calls>>

\* fp.close() after the loop, and the return
Close ==
  /\ csv.pc = "rows"
  /\ csv.i > csv.self.N
  /\ csv' = [pc |-> "done", res |-> Ret(None), fp |-> [csv.fp EXCEPT !.closed = TRUE]] @@ csv
  /\ UNCHANGED <<db, now, last, calls>>

RECURSIVE Sum(_)
\* sum(list)
Sum(list) == IF list = <<>> THEN 0 ELSE list[1] + Sum(Tail(list))

\* num / den
Quotient(num, den) ==
  IF den = 0 THEN Raise("ZeroDivisionError", "division by zero")
  ELSE Ret([num |-> num, den |-> den])

\* q / n for a quotient q
Over(q, n) ==
  IF n = 0 THEN Raise("ZeroDivisionError", "division by zero")
  ELSE Ret([num |-> q.num, den |-> q.den * n])

\* RecordSet.Mean
Mean(self) == Quotient(Sum(self.data), self.N)

\* RecordSet.Variance; (x - a/b)**2 is (x*b - a)**2 / b**2
Variance(self) ==
  LET Squares(xbar) ==
        [num |-> Sum([i \in 1..Len(self.data) |->
                        (self.data[i] * xbar.den - xbar.num) * (self.data[i] * xbar.den - xbar.num)]),
         den |-> xbar.den * xbar.den]
      Of(xbar) == IF xbar.k = "raise" THEN xbar ELSE Over(Squares(xbar.v), self.N)
  IN Of(Mean(self))

\* RecordSet.StandardDeviation with the variance times N divided by N
StandardDeviationOverN(self) ==
  LET Root(q) == IF q.k = "raise" THEN q ELSE Ret([root |-> q.v])
      Of(var) == IF var.k = "raise" THEN var
                 ELSE Root(Over([num |-> var.v.num * self.N, den |-> var.v.den], self.N))
  IN Of(Variance(self))

\* RecordSet.StandardDeviation
StandardDeviation(self) ==
  LET Root(q) == IF q.k = "raise" THEN q ELSE Ret([root |-> q.v])
      Of(var) == IF var.k = "raise" THEN var
                 ELSE Root(Over([num |-> var.v.num * self.N, den |-> var.v.den], self.N - 1))
  IN Of(Variance(self))

Statistic(op, self, res) ==
  /\ csv.pc = "idle"
  /\ last' = [op |-> op, args |-> [self |-> self], res |-> res]
  /\ UNCHANGED <<db, now, calls, csv>>

DoMean == Idle /\ \E self \in RecordSets : Statistic("Mean", self, Mean(self))

DoVariance == Idle /\ \E self \in RecordSets : Statistic("Variance", self, Variance(self))

DoStandardDeviation ==
  Idle /\ \E self \in RecordSets : Statistic("StandardDeviation", self, StandardDeviation(self))

RecordSetInit == db = EmptyDB /\ now = 0 /\ last = NoCall /\ calls = NoCalls /\ csv = NoWrite

RecordSetNext ==
  \/ DoMean
  \/ DoVariance
  \/ DoStandardDeviation
  \/ Discard
  \/ Open
  \/ WriteHeader
  \/ WriteRow
  \/ Close

RecordSetSpec == RecordSetInit /\ [][RecordSetNext]_vars

\* C14 as claimed: when a WriteCSV call has ended, by returning or by an
\* error raised after the file was opened, the file has been closed.  Refuted
\* by a call that ends in an error: close() is only reached after the loop.
C14_AsClaimed == csv.pc = "done" => csv.fp.closed

\* the lines a WriteCSV call is to write, without their terminators
CsvLines(self, delim, header) ==
  (IF header
   THEN <<<<"D", "T", "G">> \o delim \o self.sensor.units.desc \o <<" ", "(">>
            \o self.sensor.units.short \o <<")">> \o delim \o <<"E", "r", "r", "o", "r">>>>
   ELSE <<>>)
  \o [i \in 1..self.N |->
        PyStr(self.times[i]) \o delim \o PyStr(self.data[i]) \o delim \o PyStr(self.error[i])]

RECURSIVE Terminated(_)
\* the text of a file that holds these lines, each ended by one newline
Terminated(lines) ==
  IF lines = <<>> THEN <<>> ELSE lines[1] \o <<Newline>> \o Terminated(Tail(lines))

\* C15 as claimed: a WriteCSV call on a RecordSet of N records, unless a
\* write to the file itself fails, leaves in the file exactly N lines (N + 1
\* with the header): the header 'DTG', units label, 'Error' and then, for
\* each record in order, its timestamp, value and error, joined by the
\* delimiter, every line ended by one newline and nothing after the last.
\* Refuted by a RecordSet whose sensor has units that are not a Units
\* object: with header=True the call raises and leaves the file empty.
C15_AsClaimed ==
  (csv.pc = "done" /\ csv.res # WriteFailed) =>
    /\ csv.res = Ret(None)
    /\ csv.fp.text = Terminated(CsvLines(csv.self, csv.delim, csv.header))
    /\ Cardinality({j \in 1..Len(csv.fp.text) : csv.fp.text[j] = Newline})
         = csv.self.N + (IF csv.header THEN 1 ELSE 0)

DivisionByZero(res) == res.k = "raise" /\ res.exc = "ZeroDivisionError"

\* C16: StandardDeviation of a RecordSet of one record ends in a division by
\* zero and returns nothing, while Mean and Variance of such a RecordSet
\* return; StandardDeviation of a RecordSet of two or more records does not
\* end in a division by zero.
C16_StandardDeviation ==
  /\ last.op = "StandardDeviation" =>
       IF last.args.self.N = 1 THEN DivisionByZero(last.res)
       ELSE ~DivisionByZero(last.res) /\ last.res.k = "ret"
  /\ (last.op \in {"Mean", "Variance"} /\ last.args.self.N = 1) =>
       /\ last.res.k = "ret"
       /\ Mean(last.args.self).k = "ret"
       /\ Variance(last.args.self).k = "ret"
       /\ DivisionByZero(StandardDeviation(last.args.self))

\* StandardDeviation of a RecordSet of one record has ended in a division by
\* zero
C16_Witness ==
  /\ last.op = "StandardDeviation"
  /\ last.args.self.N = 1
  /\ DivisionByZero(last.res)
  /\ Mean(last.args.self) = Ret([num |-> last.args.self.data[1], den |-> 1])

DuplicateError ==
  {Raise("DatabaseException", "Project already exists"),
   Raise("DatabaseException", "System already exists"),
   Raise("DatabaseException", "Device already exists"),
   Raise("DatabaseException", "Sensor already exists")}

C17_Step ==
  \A k \in 2..5 :
    (Idle /\ last'.op = CreateOps[k] /\ Len(Split(last'.args.name)) = k) =>
      LET parts == Split(last'.args.name)
          missing == {i \in 1..(k - 1) : Chain(parts, i) = {}}
      IN /\ missing # {} =>
              /\ DbError(last'.res)
              /\ last'.res \notin DuplicateError
              /\ db' = db
         /\ db' # db => missing = {} /\ Chain(parts, k) = {}

\* C17 as claimed: a Create call for a Project, System, Device or Sensor
\* inserts only when every ancestor of the name exists and the name itself
\* does not exist under its parent; when an ancestor is missing the call
\* fails with a DatabaseException that is not the duplicate error and the
\* store is unchanged.  Refuted when a row above the missing ancestor does
\* not pass its constructor: the call then ends in a ModelException.
C17_AsClaimed == [][C17_Step]_vars

\* every row of table holds in column col the id of a row of target
Refers(table, col, target) ==
  \A i \in Ids(table) : db[table][i][col] \in Ids(target)

\* C18 as claimed: in every reachable state every project row refers to an
\* owner row, every system to a project, every device to a system and to a
\* manufacturer, every sensor to a device and to units, and every record to a
\* sensor.  Refuted by a Create or RecordMeasurement call that is given a
\* manufacturer, units or sensor object with an id no row has.
C18_AsClaimed ==
  /\ \A k \in 2..5 : Refers(LevelTable[k], ParentColumn[k], LevelTable[k - 1])
  /\ Refers("Devices", "mfgID", "Manufacturers")
  /\ Refers("Sensors", "unitID", "Units")
  /\ Refers(recTable, "senID", "Sensors")

====
